---- MODULE Spec2Model ----
(***************************************************************************)
(* Boggle (src/src/boggle.cpp): the word verifier humanWordSearch /        *)
(* searchForWord, the enumerator computerWordSearch / exhaustiveSearch,    *)
(* the scoring function getPoints and the round played by main, humanTurn  *)
(* and computerTurn.                                                       *)
(*                                                                         *)
(* Characters are their ASCII codes, a string is a sequence of codes, a    *)
(* Grid<char> is a function from <<row, col>> to a code.  boggle.h, which  *)
(* sets BOARD_SIZE and MIN_WORD_LENGTH, is not among the sources; the      *)
(* board is scaled down here and both are bounds of the model.             *)
(***************************************************************************)
EXTENDS Integers, Sequences, FiniteSets, TLC

\* ---------------------------------------------------------------- bounds
BOARD_SIZE == 2
MIN_WORD_LENGTH == 2
\* The cells, in row-major order, whose letter is drawn freely (all of them on
\* the board as scaled here); a cell past them holds 'A'.
FreeCells == 4
\* Longest word handed to the verifier (one more than the cells of the board).
MaxWordLen == 5
\* Longest word handed to getPoints on its own.
MaxPointsLen == 9
\* Most words in an exclusion set handed to the enumerator on its own.
MaxExcluded == 1

\* ------------------------------------------------------------ characters
\* integerToChar(0), the "letter already used" marker.
NUL == 0
\* The upper-case letters on the cubes ('A', 'B').
Letters == {65, 66}

toUpperCaseChar(ch) == IF ch >= 97 /\ ch <= 122 THEN ch - 32 ELSE ch
toLowerCaseChar(ch) == IF ch >= 65 /\ ch <= 90 THEN ch + 32 ELSE ch
toUpperCase(str) == [k \in 1..Len(str) |-> toUpperCaseChar(str[k])]
toLowerCase(str) == [k \in 1..Len(str) |-> toLowerCaseChar(str[k])]

\* startsWith(str, prefix) of strlib.
startsWith(str, prefix) ==
    /\ Len(str) >= Len(prefix)
    /\ \A k \in 1..Len(prefix) : str[k] = prefix[k]

\* word[0]: the terminating NUL when the string is empty.
firstChar(word) == IF Len(word) = 0 THEN NUL ELSE word[1]

\* All strings over S of length lo..hi.
RECURSIVE StringsOfLen(_, _)
StringsOfLen(S, n) ==
    IF n = 0 THEN {<<>>}
    ELSE {Append(s, ch) : s \in StringsOfLen(S, n - 1), ch \in S}
Strings(S, lo, hi) == UNION {StringsOfLen(S, n) : n \in lo..hi}

\* ----------------------------------------------------------------- board
NUM_CUBES == BOARD_SIZE * BOARD_SIZE
Cells == (0..(BOARD_SIZE - 1)) \X (0..(BOARD_SIZE - 1))
\* Row-major order of the two nested loops over the board.
CellAt(n) == <<(n - 1) \div BOARD_SIZE, (n - 1) % BOARD_SIZE>>
\* The boards promptBoard can produce: every cell an upper-case letter.
Boards ==
    {b \in [Cells -> Letters] :
        \A n \in 1..NUM_CUBES : n > FreeCells => b[CellAt(n)] = 65}
\* Grid<char> board(BOARD_SIZE, BOARD_SIZE): value-initialised cells.
EmptyBoard == [c \in Cells |-> NUL]

inBounds(row, col) ==
    row >= 0 /\ row < BOARD_SIZE /\ col >= 0 /\ col < BOARD_SIZE

\* The neighbourhood loops: i = -1..1 outside, j = -1..1 inside (the cell
\* itself, i = j = 0, is visited too).
Offsets ==
    << <<-1, -1>>, <<-1, 0>>, <<-1, 1>>,
       << 0, -1>>, << 0, 0>>, << 0, 1>>,
       << 1, -1>>, << 1, 0>>, << 1, 1>> >>

\* board[row][col] = integerToChar(0)
markUsedForgotten(board, row, col) == board
markUsed(board, row, col) == [board EXCEPT ![<<row, col>>] = NUL]

\* A Grid<char> parameter taken by value: what the callee wrote into its
\* copy is gone when it returns, the caller goes on with its own grid.
boardAfterCallByRef(callerBoard, calleeBoard) == calleeBoard
boardAfterCall(callerBoard, calleeBoard) == callerBoard

\* --------------------------------------------------------------- lexicon
\* A Lexicon is the set of its entries (kept upper-case); both queries
\* ignore case.
contains(dictionary, word) == toUpperCase(word) \in dictionary
containsPrefixWordsOnly(dictionary, prefix) == contains(dictionary, prefix)
containsPrefixProper(dictionary, prefix) ==
    LET upper == toUpperCase(prefix)
    IN  \E w \in dictionary : startsWith(w, upper) /\ Len(w) > Len(prefix)
containsPrefix(dictionary, prefix) ==
    LET upper == toUpperCase(prefix)
    IN  \E w \in dictionary : startsWith(w, upper)

\* --------------------------------------------------------------- scoring
getPointsOffByOne(word) ==
    IF Len(word) = 4 THEN 1
    ELSE IF Len(word) = 5 THEN 2
    ELSE IF Len(word) = 6 THEN 3
    ELSE IF Len(word) = 7 THEN 5
    ELSE IF Len(word) > 8 THEN 11
    ELSE 0
getPoints(word) ==
    IF Len(word) = 4 THEN 1
    ELSE IF Len(word) = 5 THEN 2
    ELSE IF Len(word) = 6 THEN 3
    ELSE IF Len(word) = 7 THEN 5
    ELSE IF Len(word) > 7 THEN 11
    ELSE 0

\* -------------------------------------------------------------- verifier
\* The test that lets searchForWord recurse into a neighbour.
extendsWordAnyLetter(word, searchWord) ==
    Len(searchWord) <= Len(word) /\ searchWord[Len(searchWord)] # NUL
extendsWord(word, searchWord) == startsWith(word, searchWord)

\* The test that starts a search at a cell.
startsAtAlways(start, word) == TRUE
startsAt(start, word) == start = firstChar(word)

\* searchForWord and its neighbourhood loop from offset k on.  The result
\* is the value returned and the callee's grid when it returns.
RECURSIVE searchForWord(_, _, _, _, _)
RECURSIVE searchNeighbours(_, _, _, _, _, _)
searchForWord(board, word, potentialWord, row, col) ==
    LET marked == markUsed(board, row, col)
    IN  IF potentialWord = word
        THEN [found |-> TRUE, board |-> marked]
        ELSE searchNeighbours(marked, word, potentialWord, row, col, 1)

searchNeighbours(board, word, potentialWord, row, col, k) ==
    IF k > Len(Offsets)
    THEN [found |-> FALSE, board |-> board]
    ELSE
        LET r == row + Offsets[k][1]
            c == col + Offsets[k][2]
        IN  IF inBounds(r, c)
               /\ extendsWord(word, Append(potentialWord, board[<<r, c>>]))
            THEN
                LET res == searchForWord(board, word,
                               Append(potentialWord, board[<<r, c>>]), r, c)
                    after == boardAfterCall(board, res.board)
                IN  IF res.found
                    THEN [found |-> TRUE, board |-> after]
                    ELSE searchNeighbours(after, word, potentialWord,
                                          row, col, k + 1)
            ELSE searchNeighbours(board, word, potentialWord, row, col, k + 1)

\* humanWordSearch from the n-th cell (row-major) on.  The result is the
\* value returned and the caller's grid after the call.
RECURSIVE humanScan(_, _, _)
humanScan(board, word, n) ==
    IF n > NUM_CUBES
    THEN [found |-> FALSE, board |-> board]
    ELSE
        LET row == CellAt(n)[1]
            col == CellAt(n)[2]
            start == board[<<row, col>>]
        IN  IF startsAt(start, word)
            THEN
                LET res == searchForWord(board, word, <<start>>, row, col)
                    after == boardAfterCall(board, res.board)
                IN  IF res.found
                    THEN [found |-> TRUE, board |-> after]
                    ELSE humanScan(after, word, n + 1)
            ELSE humanScan(board, word, n + 1)

humanWordSearch(board, word) == humanScan(board, word, 1)

\* ------------------------------------------------------------ enumerator
\* The test that puts the candidate into foundWords.
qualifiesNoExclusion(dictionary, humanWords, potentialWord) ==
    /\ contains(dictionary, potentialWord)
    /\ Len(potentialWord) >= MIN_WORD_LENGTH
qualifies(dictionary, humanWords, potentialWord) ==
    /\ contains(dictionary, potentialWord)
    /\ Len(potentialWord) >= MIN_WORD_LENGTH
    /\ potentialWord \notin humanWords

\* The test on a neighbour before its letter is appended.
isFree(board, r, c) == inBounds(r, c) /\ board[<<r, c>>] # NUL

\* exhaustiveSearch and its neighbourhood loop from offset k on.  The
\* result is the set returned and the callee's grid when it returns.
RECURSIVE exhaustiveSearch(_, _, _, _, _, _)
RECURSIVE exhaustiveNeighbours(_, _, _, _, _, _, _)
exhaustiveSearch(board, dictionary, humanWords, potentialWord, row, col) ==
    LET marked == markUsed(board, row, col)
        foundWords ==
            IF qualifies(dictionary, humanWords, potentialWord)
            THEN {potentialWord} ELSE {}
    IN  IF containsPrefix(dictionary, potentialWord)
        THEN
            LET res == exhaustiveNeighbours(marked, dictionary, humanWords,
                                            potentialWord, row, col, 1)
            IN  [words |-> foundWords \cup res.words, board |-> res.board]
        ELSE [words |-> foundWords, board |-> marked]

exhaustiveNeighbours(board, dictionary, humanWords, potentialWord, row, col, k) ==
    IF k > Len(Offsets)
    THEN [words |-> {}, board |-> board]
    ELSE
        LET r == row + Offsets[k][1]
            c == col + Offsets[k][2]
        IN  IF isFree(board, r, c)
               /\ containsPrefix(dictionary,
                                 Append(potentialWord, board[<<r, c>>]))
            THEN
                LET res == exhaustiveSearch(board, dictionary, humanWords,
                               Append(potentialWord, board[<<r, c>>]), r, c)
                    after == boardAfterCall(board, res.board)
                    rest == exhaustiveNeighbours(after, dictionary,
                                humanWords, potentialWord, row, col, k + 1)
                IN  [words |-> res.words \cup rest.words,
                     board |-> rest.board]
            ELSE exhaustiveNeighbours(board, dictionary, humanWords,
                                      potentialWord, row, col, k + 1)

\* computerWordSearch from the n-th cell (row-major) on.
RECURSIVE computerScan(_, _, _, _)
computerScan(board, dictionary, humanWords, n) ==
    IF n > NUM_CUBES
    THEN [words |-> {}, board |-> board]
    ELSE
        LET row == CellAt(n)[1]
            col == CellAt(n)[2]
            res == exhaustiveSearch(board, dictionary, humanWords,
                                    <<board[<<row, col>>]>>, row, col)
            after == boardAfterCall(board, res.board)
            rest == computerScan(after, dictionary, humanWords, n + 1)
        IN  [words |-> res.words \cup rest.words, board |-> rest.board]

computerWordSearch(board, dictionary, humanWords) ==
    computerScan(board, dictionary, humanWords, 1)

\* ------------------------------------------------------- words in play
\* The words of the lexicons and of the player: "A", "AB", "ABA", "ABAB",
\* "BBA", "BAB", "AABAA".
Vocabulary ==
    { <<65>>, <<65, 66>>, <<65, 66, 65>>, <<65, 66, 65, 66>>,
      <<66, 66, 65>>, <<66, 65, 66>>, <<65, 65, 66, 65, 65>> }
\* The dictionaries a run may load.
Lexicons ==
    { { <<65>>, <<65, 66>>, <<65, 66, 65>>, <<65, 66, 65, 66>> },
      { <<66, 66, 65>>, <<66, 65, 66>>, <<65, 66, 65, 66>> },
      { <<65, 66>>, <<66, 65, 66>>, <<65, 66, 65>>, <<65, 65, 66, 65, 65>> } }
\* What the player may type at a prompt: a word in either case, or nothing.
TypedLines ==
    Vocabulary \cup {toLowerCase(w) : w \in Vocabulary} \cup {<<>>}
\* The words handed to the verifier on its own.
VerifyWords == Strings(Letters, 0, MaxWordLen) \cup Vocabulary
\* The words handed to getPoints on its own.
PointsWords == Strings(Letters, 0, MaxPointsLen)

\* computerScore after the loop over computerWords.
RECURSIVE sumPoints(_)
sumPoints(words) ==
    IF words = {} THEN 0
    ELSE LET w == CHOOSE x \in words : TRUE
         IN  getPoints(w) + sumPoints(words \ {w})

\* ------------------------------------------------------------------ state
VARIABLES
    pc,            \* where the program is
    board,         \* main's Grid<char> board
    dictionary,    \* main's Lexicon
    mainScore,     \* main's int humanScore (line 63)
    humanWords,    \* main's Set<string> humanWords
    wordList,      \* humanTurn's wordList
    humanScore,    \* humanTurn's own copy of humanScore
    word,          \* humanTurn's word / the word under verification
    message,       \* what humanTurn printed about the last entry
    computerWords, \* computerTurn's computerWords
    computerScore, \* computerTurn's computerScore
    verdict,       \* what computerTurn printed at the end of the round
    stack,         \* the active searchForWord calls, outermost first
    scan,          \* humanWordSearch's position in its loops (row-major)
    ret,           \* what a searchForWord call has just returned, and its grid
    result,        \* the value humanWordSearch returned
    unpruned,      \* the enumeration without the containsPrefix tests
    points         \* the value getPoints returned

vars == <<pc, board, dictionary, mainScore, humanWords, wordList, humanScore,
          word, message, computerWords, computerScore, verdict, stack, scan,
          ret, result, unpruned, points>>

roundVars == <<mainScore, humanWords, wordList, humanScore, word, message,
               computerWords, computerScore, verdict>>
searchVars == <<stack, scan, ret, result>>

\* ------------------------------------------------------------- the round
\* The values the locals hold before a round assigns them.
RoundIdle ==
    /\ mainScore = 0 /\ humanWords = {} /\ wordList = {} /\ humanScore = 0
    /\ word = <<>> /\ message = "none"
    /\ computerWords = {} /\ computerScore = 0 /\ verdict = "none"
\* No searchForWord call has returned.
NoRet == [value |-> "none", board |-> EmptyBoard]
SearchIdle ==
    /\ stack = <<>> /\ scan = 0 /\ ret = NoRet /\ result = "none"

\* After construction in main: the grid, the lexicon, nothing played yet.
Init ==
    /\ pc = "promptBoard"
    /\ board = EmptyBoard
    /\ dictionary \in Lexicons
    /\ RoundIdle /\ SearchIdle
    /\ unpruned = {} /\ points = 0

\* promptBoard: a random or a typed board, every cell an upper-case letter.
PromptBoard(b) ==
    /\ pc = "promptBoard"
    /\ board' = b
    /\ pc' = "humanTurn"
    /\ UNCHANGED <<dictionary, roundVars, searchVars, unpruned, points>>

\* int humanScore = 0 in main, then humanTurn up to its first prompt; the
\* score is handed over by value.
StartHumanTurn ==
    /\ pc = "humanTurn"
    /\ mainScore' = 0
    /\ humanScore' = mainScore'
    /\ wordList' = {}
    /\ word' = <<32>>
    /\ message' = "none"
    /\ pc' = "getWord"
    /\ UNCHANGED <<board, dictionary, humanWords, computerWords,
                   computerScore, verdict, searchVars, unpruned, points>>

\* The two tests of getWord.
tooShort(w) == Len(w) < MIN_WORD_LENGTH /\ w # <<>>
notFound(d, w) == ~contains(d, w) /\ w # <<>>
\* From the while condition of getWord with w in hand: the prompt it blocks
\* at next, or its return.
getWordLoop(d, w) ==
    IF tooShort(w) THEN "getWord139"
    ELSE IF notFound(d, w) THEN "getWord143"
    ELSE "return"
\* From the line read at line 139: the second test of the loop body first.
getWordAfterShort(d, w) ==
    IF notFound(d, w) THEN "getWord143" ELSE getWordLoop(d, w)

\* wordList.contains(word)
alreadyFoundNever(list, w) == FALSE
alreadyFound(list, w) == w \in list

\* An int parameter taken by value: the caller's variable keeps its value.
scoreAfterCall(callerScore, calleeScore) == callerScore

\* The rest of an iteration of humanTurn's loop once getWord has returned w,
\* and humanTurn's return to main when w is empty.
HumanTurnBody(w) ==
    LET res == humanWordSearch(board, w)
    IN  /\ word' = w
        /\ IF alreadyFound(wordList, w)
           THEN /\ message' = "already"
                /\ UNCHANGED <<wordList, humanScore, board>>
           ELSE IF res.found
           THEN /\ wordList' = wordList \cup {w}
                /\ humanScore' = humanScore + getPoints(w)
                /\ message' = "found"
                /\ board' = res.board
           ELSE /\ message' = (IF w # <<>> THEN "cantform" ELSE "none")
                /\ board' = res.board
                /\ UNCHANGED <<wordList, humanScore>>
        /\ IF w # <<>>
           THEN /\ pc' = "getWord"
                /\ UNCHANGED <<mainScore, humanWords>>
           ELSE /\ pc' = "computerTurn"
                /\ humanWords' = wordList'
                /\ mainScore' = scoreAfterCall(mainScore, humanScore')

\* getWord goes on with the line just read, to its next prompt or through
\* its return into humanTurn.
GetWordGoesOn(next, w) ==
    IF next = "return"
    THEN /\ HumanTurnBody(toUpperCase(w))
         /\ UNCHANGED <<dictionary, computerWords, computerScore, verdict,
                        searchVars, unpruned, points>>
    ELSE /\ pc' = next
         /\ UNCHANGED <<board, dictionary, roundVars, searchVars, unpruned,
                        points>>

\* The first prompt of getWord (line 134): the line is upper-cased.
GetWordFirst(line) ==
    /\ pc = "getWord"
    /\ GetWordGoesOn(getWordLoop(dictionary, toUpperCase(line)),
                     toUpperCase(line))

\* The prompt after "The word must have at least ..." (line 139).
GetWordAfterShort(line) ==
    /\ pc = "getWord139"
    /\ GetWordGoesOn(getWordAfterShort(dictionary, line), line)

\* The prompt after "That word is not found in the dictionary." (line 143).
GetWordAfterNotFound(line) ==
    /\ pc = "getWord143"
    /\ GetWordGoesOn(getWordLoop(dictionary, line), line)

\* The verdict computerTurn prints from the two scores it holds.
verdictOf(computer, human) ==
    IF computer > human THEN "computer"
    ELSE IF computer < human THEN "human"
    ELSE "draw"

\* computerTurn, called with main's humanWords and main's humanScore.
ComputerTurn ==
    /\ pc = "computerTurn"
    /\ LET res == computerWordSearch(board, dictionary, humanWords)
       IN  /\ computerWords' = res.words
           /\ board' = res.board
           /\ computerScore' = sumPoints(res.words)
           /\ verdict' = verdictOf(sumPoints(res.words), mainScore)
    /\ pc' = "playAgain"
    /\ UNCHANGED <<dictionary, mainScore, humanWords, wordList, humanScore,
                   word, message, searchVars, unpruned, points>>

\* getYesOrNo("Play again? "): another round, whose locals are fresh, or the
\* end of main.
PlayAgain(yes) ==
    /\ pc = "playAgain"
    /\ pc' = (IF yes THEN "promptBoard" ELSE "exit")
    /\ IF yes
       THEN /\ mainScore' = 0 /\ humanWords' = {} /\ wordList' = {}
            /\ humanScore' = 0 /\ word' = <<>> /\ message' = "none"
            /\ computerWords' = {} /\ computerScore' = 0
            /\ verdict' = "none"
       ELSE UNCHANGED roundVars
    /\ UNCHANGED <<board, dictionary, searchVars, unpruned, points>>

Next ==
    \/ \E b \in Boards : PromptBoard(b)
    \/ StartHumanTurn
    \/ \E line \in TypedLines : GetWordFirst(line)
    \/ \E line \in TypedLines : GetWordAfterShort(line)
    \/ \E line \in TypedLines : GetWordAfterNotFound(line)
    \/ ComputerTurn
    \/ \E yes \in BOOLEAN : PlayAgain(yes)

Spec == Init /\ [][Next]_vars

\* ------------------------------------------- the verifier, call by call
\* humanWordSearch(board, word) on its own, one step per test of its loops
\* and one frame of stack per active searchForWord call: the callee's own
\* grid, its potentialWord, its cell and the offset k its loops are at.
InitVerify ==
    /\ pc = "humanWordSearch"
    /\ board \in Boards
    /\ word \in VerifyWords
    /\ dictionary = {}
    /\ mainScore = 0 /\ humanWords = {} /\ wordList = {} /\ humanScore = 0
    /\ message = "none"
    /\ computerWords = {} /\ computerScore = 0 /\ verdict = "none"
    /\ stack = <<>> /\ scan = 1 /\ ret = NoRet /\ result = "none"
    /\ unpruned = {} /\ points = 0

Top == stack[Len(stack)]
Pop == SubSeq(stack, 1, Len(stack) - 1)
\* A call of searchForWord: the grid is copied and the cell marked in the copy.
Frame(b, potentialWord, row, col) ==
    [board |-> markUsed(b, row, col), potentialWord |-> potentialWord,
     row |-> row, col |-> col, k |-> 1]
AtNextOffset == [stack EXCEPT ![Len(stack)].k = @ + 1]
verifyFrame == <<dictionary, mainScore, humanWords, wordList, humanScore,
                 word, message, computerWords, computerScore, verdict,
                 unpruned, points>>

\* humanWordSearch at a cell whose letter is not word[0]: the next cell.
HwsSkip ==
    /\ pc = "humanWordSearch" /\ scan <= NUM_CUBES
    /\ ~startsAt(board[CellAt(scan)], word)
    /\ scan' = scan + 1
    /\ UNCHANGED <<pc, board, stack, ret, result, verifyFrame>>

\* humanWordSearch at a cell whose letter is word[0]: searchForWord is called.
HwsCall ==
    /\ pc = "humanWordSearch" /\ scan <= NUM_CUBES
    /\ startsAt(board[CellAt(scan)], word)
    /\ stack' = <<Frame(board, <<board[CellAt(scan)]>>,
                        CellAt(scan)[1], CellAt(scan)[2])>>
    /\ pc' = "searchForWord"
    /\ UNCHANGED <<board, scan, ret, result, verifyFrame>>

\* humanWordSearch past the last cell: return false.
HwsFalse ==
    /\ pc = "humanWordSearch" /\ scan > NUM_CUBES
    /\ result' = "false"
    /\ pc' = "returned"
    /\ UNCHANGED <<board, stack, scan, ret, verifyFrame>>

\* searchForWord returned into humanWordSearch: return true, or go on.
HwsResume ==
    /\ pc = "searchForWord" /\ stack = <<>> /\ ret.value # "none"
    /\ board' = boardAfterCall(board, ret.board)
    /\ ret' = NoRet
    /\ IF ret.value = "true"
       THEN result' = "true" /\ pc' = "returned" /\ UNCHANGED scan
       ELSE scan' = scan + 1 /\ pc' = "humanWordSearch" /\ UNCHANGED result
    /\ UNCHANGED <<stack, verifyFrame>>

\* searchForWord: potentialWord == word, return true.
SfwFound ==
    /\ pc = "searchForWord" /\ stack # <<>> /\ ret.value = "none"
    /\ Top.potentialWord = word
    /\ ret' = [value |-> "true", board |-> Top.board]
    /\ stack' = Pop
    /\ UNCHANGED <<pc, board, scan, result, verifyFrame>>

\* searchForWord: both loops are through, return false.
SfwFalse ==
    /\ pc = "searchForWord" /\ stack # <<>> /\ ret.value = "none"
    /\ Top.potentialWord # word
    /\ Top.k > Len(Offsets)
    /\ ret' = [value |-> "false", board |-> Top.board]
    /\ stack' = Pop
    /\ UNCHANGED <<pc, board, scan, result, verifyFrame>>

\* searchForWord at a neighbour that is out of bounds or whose letter does
\* not continue the word: the next offset.
SfwSkip ==
    /\ pc = "searchForWord" /\ stack # <<>> /\ ret.value = "none"
    /\ Top.potentialWord # word
    /\ Top.k <= Len(Offsets)
    /\ LET r == Top.row + Offsets[Top.k][1]
           c == Top.col + Offsets[Top.k][2]
       IN  ~(/\ inBounds(r, c)
             /\ extendsWord(word,
                    Append(Top.potentialWord, Top.board[<<r, c>>])))
    /\ stack' = AtNextOffset
    /\ UNCHANGED <<pc, board, scan, ret, result, verifyFrame>>

\* searchForWord at a neighbour whose letter continues the word: the
\* recursive call.
SfwCall ==
    /\ pc = "searchForWord" /\ stack # <<>> /\ ret.value = "none"
    /\ Top.potentialWord # word
    /\ Top.k <= Len(Offsets)
    /\ LET r == Top.row + Offsets[Top.k][1]
           c == Top.col + Offsets[Top.k][2]
       IN  /\ inBounds(r, c)
           /\ extendsWord(word,
                  Append(Top.potentialWord, Top.board[<<r, c>>]))
           /\ stack' = Append(stack,
                  Frame(Top.board,
                        Append(Top.potentialWord, Top.board[<<r, c>>]),
                        r, c))
    /\ UNCHANGED <<pc, board, scan, ret, result, verifyFrame>>

\* A recursive call returned into searchForWord: return true, or go on
\* with the next offset.
SfwResume ==
    /\ pc = "searchForWord" /\ stack # <<>> /\ ret.value # "none"
    /\ IF ret.value = "true"
       THEN /\ stack' = Pop
            /\ ret' = [value |-> "true",
                       board |-> boardAfterCall(Top.board, ret.board)]
       ELSE /\ stack' = [stack EXCEPT
                            ![Len(stack)].k = @ + 1,
                            ![Len(stack)].board =
                                boardAfterCall(@, ret.board)]
            /\ ret' = NoRet
    /\ UNCHANGED <<pc, board, scan, result, verifyFrame>>

NextVerify ==
    \/ HwsSkip \/ HwsCall \/ HwsFalse \/ HwsResume
    \/ SfwFound \/ SfwFalse \/ SfwSkip \/ SfwCall \/ SfwResume

\* The call runs on: nothing but the search itself holds it up.
SpecVerify == InitVerify /\ [][NextVerify]_vars /\ WF_vars(NextVerify)

\* ------------------------------------------------ the enumerator alone
\* computerWordSearch(board, dictionary, humanWords) on its own, for any
\* exclusion set over the vocabulary.
InitEnum ==
    /\ pc = "computerWordSearch"
    /\ board \in Boards
    /\ dictionary \in Lexicons
    /\ humanWords \in {e \in SUBSET Vocabulary :
                          /\ Cardinality(e) <= MaxExcluded
                          /\ (e \subseteq dictionary \/ Cardinality(e) = 1)}
    /\ mainScore = 0 /\ wordList = {} /\ humanScore = 0
    /\ word = <<>> /\ message = "none"
    /\ computerWords = {} /\ computerScore = 0 /\ verdict = "none"
    /\ SearchIdle
    /\ unpruned = {} /\ points = 0

Enumerate ==
    /\ pc = "computerWordSearch"
    /\ LET res == computerWordSearch(board, dictionary, humanWords)
       IN  /\ computerWords' = res.words
           /\ board' = res.board
    /\ pc' = "enumerated"
    /\ UNCHANGED <<dictionary, mainScore, humanWords, wordList, humanScore,
                   word, message, computerScore, verdict, searchVars,
                   unpruned, points>>

NextEnum == Enumerate

SpecEnum == InitEnum /\ [][NextEnum]_vars

\* The enumerator with both containsPrefix tests taken out: from every start
\* cell every path over cells not used yet is walked, whatever it spells.
NeighbourCells(row, col) ==
    {c \in Cells :
        /\ c # <<row, col>>
        /\ (c[1] - row) \in -1..1
        /\ (c[2] - col) \in -1..1}
RECURSIVE unprunedSearch(_, _, _, _, _, _)
unprunedSearch(b, d, excluded, potentialWord, row, col) ==
    LET marked == markUsed(b, row, col)
    IN  (IF qualifies(d, excluded, potentialWord)
         THEN {potentialWord} ELSE {})
        \cup UNION {unprunedSearch(marked, d, excluded,
                                   Append(potentialWord, marked[c]),
                                   c[1], c[2]) :
                       c \in {x \in NeighbourCells(row, col) :
                                 marked[x] # NUL}}

unprunedWordSearch(b, d, excluded) ==
    UNION {unprunedSearch(b, d, excluded, <<b[c]>>, c[1], c[2]) : c \in Cells}

\* The enumerator run next to its unpruned form on the same inputs.
InitPrune ==
    /\ InitEnum
    /\ humanWords \in {{}, {<<65, 66>>}}

EnumerateUnpruned ==
    /\ pc = "enumerated"
    /\ unpruned' = unprunedWordSearch(board, dictionary, humanWords)
    /\ pc' = "compared"
    /\ UNCHANGED <<board, dictionary, roundVars, searchVars, points>>

NextPrune == Enumerate \/ EnumerateUnpruned

SpecPrune == InitPrune /\ [][NextPrune]_vars

\* ---------------------------------------------------- the scoring alone
InitPoints ==
    /\ pc = "getPoints"
    /\ word \in PointsWords
    /\ board = EmptyBoard
    /\ dictionary = {}
    /\ mainScore = 0 /\ humanWords = {} /\ wordList = {} /\ humanScore = 0
    /\ message = "none"
    /\ computerWords = {} /\ computerScore = 0 /\ verdict = "none"
    /\ SearchIdle
    /\ unpruned = {} /\ points = 0

Score ==
    /\ pc = "getPoints"
    /\ points' = getPoints(word)
    /\ pc' = "scored"
    /\ UNCHANGED <<board, dictionary, roundVars, searchVars, unpruned>>

NextPoints == Score

SpecPoints == InitPoints /\ [][NextPoints]_vars

\* ------------------------------------------------- what the claims say
\* Two different cells that touch, diagonals included.
Adjacent(p, q) ==
    /\ p # q
    /\ (p[1] - q[1]) \in -1..1
    /\ (p[2] - q[2]) \in -1..1
Range(seq) == {seq[i] : i \in 1..Len(seq)}
\* A path one cell longer: an adjacent cell not on the path yet.
Extended(paths) ==
    {Append(pq[1], pq[2]) :
        pq \in {x \in paths \X Cells :
                   /\ Adjacent(x[1][Len(x[1])], x[2])
                   /\ x[2] \notin Range(x[1])}}
\* <<the paths of 1 cell, the paths of 2 cells, ..., the paths of n cells>>:
\* the sequences of pairwise distinct cells, each adjacent to the one before.
RECURSIVE PathsUpTo(_)
PathsUpTo(n) ==
    IF n = 0 THEN <<>>
    ELSE LET shorter == PathsUpTo(n - 1)
         IN  Append(shorter,
                    IF n = 1 THEN {<<c>> : c \in Cells}
                    ELSE Extended(shorter[n - 1]))
LongestWord ==
    CHOOSE n \in {Len(w) : w \in VerifyWords} :
        \A w \in VerifyWords : Len(w) <= n
AllPaths == PathsUpTo(LongestWord)
\* Some path on grid b spells w.
Embeddable(b, w) ==
    /\ Len(w) >= 1
    /\ \E p \in AllPaths[Len(w)] : \A i \in 1..Len(w) : b[p[i]] = w[i]
\* How often ch occurs in w, and on how many cells of b.
Occurrences(w, ch) == Cardinality({i \in 1..Len(w) : w[i] = ch})
CellsWith(b, ch) == Cardinality({c \in Cells : b[c] = ch})

\* The call-by-call verifier and the function humanWordSearch agree.
VerifierAgrees ==
    pc = "returned" =>
        (result = "true") = humanWordSearch(board, word).found

C2_OnlyQualifyingWords ==
    pc = "enumerated" =>
        \A w \in computerWords :
            /\ Len(w) >= MIN_WORD_LENGTH
            /\ w \in dictionary
            /\ w \notin humanWords
\* Words were returned while an excluded lexicon word and a too short
\* lexicon word were both on the board.
C2_Witness ==
    /\ pc = "enumerated" /\ computerWords # {}
    /\ \E w \in humanWords \cap dictionary :
           Len(w) >= MIN_WORD_LENGTH /\ Embeddable(board, w)
    /\ \E w \in dictionary :
           Len(w) < MIN_WORD_LENGTH /\ Embeddable(board, w)

C4_PruningChangesNothing ==
    pc = "compared" => computerWords = unpruned
\* Words were found although the search from some start cell was cut at
\* once, its letter beginning no entry.
C4_Witness ==
    /\ pc = "compared" /\ computerWords # {}
    /\ \E c \in Cells : ~containsPrefix(dictionary, <<board[c]>>)

\* C5: no step of humanTurn or computerTurn changes main's board, and from
\* the first promptBoard on no cell of it holds the in-use marker.
C5_BoardUnchanged ==
    /\ [](pc # "promptBoard" => \A c \in Cells : board[c] \in Letters)
    /\ [][pc # "promptBoard" => board' = board]_vars
\* A round in which humanWordSearch returned true, humanWordSearch returned
\* false and computerWordSearch found words is over.
C5_Witness ==
    /\ pc = "playAgain"
    /\ wordList # {} /\ computerWords # {}
    /\ \A c \in Cells : board[c] \in Letters

\* C6 as claimed: the empty word ends humanWordSearch in an outcome other
\* than the one of a word that is not found.
C6_EmptyWordFailsFast ==
    (pc = "returned" /\ word = <<>>) => result # "false"
\* C6: for the empty word no searchForWord call is ever made and
\* humanWordSearch returns false.
C6_EmptyWordReturnsFalse ==
    word = <<>> =>
        /\ stack = <<>>
        /\ pc # "searchForWord"
        /\ pc = "returned" => result = "false"
C6_Witness ==
    pc = "returned" /\ word = <<>> /\ result = "false"

\* C7: getPoints is 0 up to 3 letters, 1 for 4, 2 for 5, 3 for 6, 5 for 7
\* and 11 from 8 letters on.
PointsTable(n) ==
    CASE n <= 3 -> 0
      [] n = 4 -> 1
      [] n = 5 -> 2
      [] n = 6 -> 3
      [] n = 7 -> 5
      [] n >= 8 -> 11
C7_PointsByLength ==
    pc = "scored" => points = PointsTable(Len(word))
C7_Witness ==
    pc = "scored" /\ Len(word) = 8 /\ points = 11

\* C8: the active searchForWord calls carry the prefixes of the word of 1,
\* 2, ... letters, so there are never more of them than the word has
\* letters, and humanWordSearch returns.
C8_Frames ==
    /\ Len(stack) <= Len(word)
    /\ \A i \in 1..Len(stack) :
           /\ Len(stack[i].potentialWord) = i
           /\ startsWith(word, stack[i].potentialWord)
C8_Terminates ==
    /\ []C8_Frames
    /\ <>(pc = "returned")
\* As many calls are active as the word has letters, one on every cell.
C8_Witness ==
    /\ pc = "searchForWord"
    /\ Len(stack) = Len(word)
    /\ Len(word) = NUM_CUBES

\* C9 as claimed: the verdict compares the computer's score with the score
\* of the words the human found.
C9_VerdictUsesTally ==
    pc = "playAgain" =>
        verdict = verdictOf(computerScore, sumPoints(humanWords))

\* C10: the word list holds non-empty lexicon words of at least
\* MIN_WORD_LENGTH letters that humanWordSearch accepts, the score is the
\* sum of their points, and an entry that is repeated, cannot be formed or
\* is empty changes neither.
HumanTurnRuns == pc \in {"getWord", "getWord139", "getWord143"}
C10_ListAndScore ==
    /\ \A w \in wordList :
           /\ w # <<>>
           /\ w \in dictionary
           /\ Len(w) >= MIN_WORD_LENGTH
           /\ humanWordSearch(board, w).found
    /\ humanScore = sumPoints(wordList)
C10_HumanTurnTally ==
    /\ []C10_ListAndScore
    /\ [][(/\ HumanTurnRuns
           /\ (message' \in {"already", "cantform"} \/ word' = <<>>))
          => (wordList' = wordList /\ humanScore' = humanScore)]_vars
\* A second word was found, one of them worth a point, and the last entry
\* was a repeated one.
C10_Witness ==
    /\ pc = "getWord" /\ message = "already"
    /\ Cardinality(wordList) >= 2
    /\ humanScore >= 1

====
